---- MODULE Spec2Model ----
(***************************************************************************)
(* Model of protocheck-build (src/protocheck-build/src/lib.rs):            *)
(*   - compile_protos_with_validators: compile to a staging descriptor     *)
(*     set, decode it into a descriptor pool, register attributes and      *)
(*     extern paths in the caller's prost_build::Config, remove the file.  *)
(*   - get_proto_files_recursive: walk a directory tree for .proto files.  *)
(* Names (packages, full names, config paths) are sequences of dot-free    *)
(* components, so "a.b" is <<"a","b">> and format!("{}.{}", n, f) is       *)
(* Append(n, f).                                                           *)
(***************************************************************************)
EXTENDS Integers, Sequences, FiniteSets, TLC

VARIABLES
  pc,          \* position inside compile_protos_with_validators
  result,      \* "none" while running, "Ok" or the error that was returned
  fileExists,  \* temp_descriptor_path exists in out_dir
  events,      \* history of operations on the staging file, and the decode
  pool,        \* the decoded prost_reflect::DescriptorPool
  msg_i,       \* index of the next message of pool.all_messages()
  config,      \* registrations made on the caller's Config, in call order
  packages,    \* the `packages` argument
  cel,         \* cfg!(feature = "cel")
  base_dir,    \* get_proto_files_recursive: the tree at the given path
  fpc,         \* get_proto_files_recursive: "call" or "returned"
  fresult      \* get_proto_files_recursive: the io::Result returned

vars == <<pc, result, fileExists, events, pool, msg_i, config, packages, cel,
          base_dir, fpc, fresult>>

compileVars == <<pc, result, fileExists, events, pool, msg_i, config, packages, cel>>
fileVars == <<base_dir, fpc, fresult>>

----------------------------------------------------------------------------
(* Bounds *)

\* messages in a descriptor pool
MaxMsgs == 2
\* fields in a descriptor pool, over all its messages
MaxFields == 2
\* entries below the root of a directory tree
MaxNodes == 3

----------------------------------------------------------------------------
(* Fixed identifiers *)

VALIDATE_EXT_FIELD_PATH == "buf.validate.field"
IGNORE_RULE_PATH == "buf.validate.FieldRules.ignore"
ALWAYS_IGNORE == 3

IgnoreAttr == [text |-> "#[protocheck(ignore_field)]", arg |-> <<>>]
ValidateAttr(n) == [text |-> "#[::protocheck::macros::protobuf_validate({})]", arg |-> n]
CelAttr == [text |-> "#[derive(::protocheck::macros::TryIntoCelValue)]", arg |-> <<>>]
ValidateOneofAttr(n) ==
  [text |-> "#[::protocheck::macros::protobuf_validate_oneof({})]", arg |-> n]
OneofAttr == [text |-> "#[derive(::protocheck::macros::Oneof)]", arg |-> <<>>]
OneofCelAttr ==
  [text |-> "#[derive(::protocheck::macros::OneofTryIntoCelValue)]", arg |-> <<>>]
ProtoNameAttr(f) == [text |-> "#[protocheck(proto_name = {})]", arg |-> <<f>>]

----------------------------------------------------------------------------
(* Descriptor pools the decode step can produce *)

PackageNames == {<<"p">>, <<"p", "sub">>}
MsgIds == << [package |-> <<"p">>, name |-> "M"],
             [package |-> <<"p", "sub">>, name |-> "N"],
             [package |-> <<"p">>, name |-> "K"],
             [package |-> <<"q">>, name |-> "L"] >>
FieldNames == <<"a", "x", "y", "z">>
OneofNames == <<"o", "r">>

\* Values of the buf.validate.field extension on a field, as the members that
\* DynamicMessage::fields() yields (only the populated ones).
OtherMember == [full_name |-> "buf.validate.FieldRules.required", isEnum |-> FALSE, number |-> 0]
IgnoreMember(k) == [full_name |-> IGNORE_RULE_PATH, isEnum |-> TRUE, number |-> k]
Absent == [isMessage |-> TRUE, members |-> <<>>]
OtherOnly == [isMessage |-> TRUE, members |-> <<OtherMember>>]
Ign(k) == [isMessage |-> TRUE, members |-> <<OtherMember, IgnoreMember(k)>>]

\* oneof = 0: not in a oneof; oneof = k: member of the message's oneof OneofNames[k]
FieldKinds ==
  {[rules |-> r, oneof |-> 0] : r \in {Absent, OtherOnly} \cup {Ign(k) : k \in 0..ALWAYS_IGNORE}}
  \cup {[rules |-> Ign(ALWAYS_IGNORE), oneof |-> 1], [rules |-> Absent, oneof |-> 2]}

FieldSeqs(n) ==
  {[i \in 1..n |-> [name |-> FieldNames[i], rules |-> ks[i].rules, oneof |-> ks[i].oneof]] :
     ks \in [1..n -> FieldKinds]}

Min(a, b) == IF a < b THEN a ELSE b

\* sequences of k messages with at most `budget` fields in total
RECURSIVE MsgSeqs(_, _)
MsgSeqs(k, budget) ==
  IF k = 0 THEN {<<>>}
  ELSE UNION {
    {Append(ms, [package |-> MsgIds[k].package, name |-> MsgIds[k].name, fields |-> fs]) :
       ms \in MsgSeqs(k - 1, budget - n), fs \in FieldSeqs(n)} :
    n \in 0..Min(budget, Len(FieldNames))}

AllAbsent(ms) == \A i \in DOMAIN ms : \A j \in DOMAIN ms[i].fields : ms[i].fields[j].rules = Absent

\* ext: the pool knows the extension buf.validate.field; without it no field carries it.
Pools ==
  UNION {
    {[ext |-> TRUE, messages |-> ms] : ms \in MsgSeqs(k, MaxFields)}
    \cup {[ext |-> FALSE, messages |-> ms] : ms \in {m \in MsgSeqs(k, MaxFields) : AllAbsent(m)}} :
    k \in 0..Min(MaxMsgs, Len(MsgIds))}

NoPool == [ext |-> FALSE, messages |-> <<>>]

----------------------------------------------------------------------------
(* Descriptor accessors *)

full_name(m) == Append(m.package, m.name)
package_name(m) == m.package
FieldFullName(m, f) == Append(full_name(m), f.name)

\* message_desc.oneofs(): the message's oneofs in declaration order
oneofs(m) ==
  LET idx == SelectSeq([i \in DOMAIN OneofNames |-> i],
                       LAMBDA k : \E j \in DOMAIN m.fields : m.fields[j].oneof = k)
  IN [i \in DOMAIN idx |-> [index |-> idx[i], name |-> OneofNames[idx[i]]]]

OneofFullName(m, o) == Append(full_name(m), o.name)
\* oneof.fields(): the member fields of the oneof
OneofFields(m, o) == SelectSeq(m.fields, LAMBDA f : f.oneof = o.index)

----------------------------------------------------------------------------
(* Config registrations *)

message_attribute(path, attr) == [fn |-> "message_attribute", path |-> path, attribute |-> attr]
type_attribute(path, attr) == [fn |-> "type_attribute", path |-> path, attribute |-> attr]
field_attribute(path, attr) == [fn |-> "field_attribute", path |-> path, attribute |-> attr]
extern_path(path, rust) ==
  [fn |-> "extern_path", path |-> path, attribute |-> [text |-> rust, arg |-> <<>>]]
compile_well_known_types ==
  [fn |-> "compile_well_known_types", path |-> <<>>, attribute |-> [text |-> "", arg |-> <<>>]]

RECURSIVE Flatten(_)
Flatten(ss) == IF ss = <<>> THEN <<>> ELSE Head(ss) \o Flatten(Tail(ss))

\* .find(|f| f.0.full_name() == "buf.validate.FieldRules.ignore"): first match or none
FindIgnore(members) ==
  LET hits == SelectSeq(members, LAMBDA mb : mb.full_name = IGNORE_RULE_PATH)
  IN IF hits = <<>> THEN <<>> ELSE <<Head(hits)>>

IgnoreField_ge2(rules) ==
  IF ~rules.isMessage THEN FALSE
  ELSE LET found == FindIgnore(rules.members)
       IN IF found = <<>> \/ ~found[1].isEnum THEN FALSE
          ELSE found[1].number >= 2

\* the `ignore_field` match of Pass A
IgnoreField(rules) ==
  IF ~rules.isMessage THEN FALSE
  ELSE LET found == FindIgnore(rules.members)
       IN IF found = <<>> \/ ~found[1].isEnum THEN FALSE
          ELSE found[1].number = ALWAYS_IGNORE

IgnoreKey_declared(m, f) == <<f.name>>

\* key of the ignore attribute: field.full_name()
IgnoreKey(m, f) == FieldFullName(m, f)

\* Pass A for one message
IgnoreDirectives(p, m) ==
  IF ~p.ext THEN <<>>
  ELSE LET hit == SelectSeq(m.fields, LAMBDA f : IgnoreField(f.rules))
       IN [i \in DOMAIN hit |-> field_attribute(IgnoreKey(m, hit[i]), IgnoreAttr)]

InTargetPackages_prefix(pkgs, m) ==
  \E t \in pkgs : Len(t) <= Len(package_name(m)) /\ SubSeq(package_name(m), 1, Len(t)) = t

\* packages.contains(&message_desc.package_name())
InTargetPackages(pkgs, m) == package_name(m) \in pkgs

FieldNameKey_fqn(m, o, f) == FieldFullName(m, f)

\* format!("{}.{}", oneof_name, field.name())
FieldNameKey(m, o, f) == Append(OneofFullName(m, o), f.name)

OneofDirectives_celOnly(c, m, o) ==
  LET oneof_name == OneofFullName(m, o)
      members == OneofFields(m, o)
  IN <<type_attribute(oneof_name, ValidateOneofAttr(oneof_name))>>
     \o (IF c THEN <<type_attribute(oneof_name, OneofAttr),
                     type_attribute(oneof_name, OneofCelAttr)>> ELSE <<>>)
     \o [i \in DOMAIN members |->
           field_attribute(FieldNameKey(m, o, members[i]), ProtoNameAttr(members[i].name))]

\* body of `for oneof in message_desc.oneofs()`
OneofDirectives(c, m, o) ==
  LET oneof_name == OneofFullName(m, o)
      members == OneofFields(m, o)
  IN <<type_attribute(oneof_name, ValidateOneofAttr(oneof_name)),
       type_attribute(oneof_name, OneofAttr)>>
     \o (IF c THEN <<type_attribute(oneof_name, OneofCelAttr)>> ELSE <<>>)
     \o [i \in DOMAIN members |->
           field_attribute(FieldNameKey(m, o, members[i]), ProtoNameAttr(members[i].name))]

\* Pass B for one message
EntityDirectives(pkgs, c, m) ==
  IF ~InTargetPackages(pkgs, m) THEN <<>>
  ELSE LET message_name == full_name(m)
           os == oneofs(m)
       IN <<message_attribute(message_name, ValidateAttr(message_name))>>
          \o (IF c THEN <<message_attribute(message_name, CelAttr)>> ELSE <<>>)
          \o Flatten([i \in DOMAIN os |-> OneofDirectives(c, m, os[i])])

ExternPaths_perMessage(p) ==
  IF p.messages = <<>> THEN <<>>
  ELSE << extern_path(<<"buf", "validate">>, "::protocheck::types::protovalidate"),
          extern_path(<<"google", "protobuf">>, "::protocheck::types"),
          compile_well_known_types >>

\* the registrations after the message loop
ExternPaths(p) ==
  << extern_path(<<"buf", "validate">>, "::protocheck::types::protovalidate"),
     extern_path(<<"google", "protobuf">>, "::protocheck::types"),
     compile_well_known_types >>

----------------------------------------------------------------------------
(* compile_protos_with_validators *)

Return(r) == /\ pc' = "returned"
             /\ result' = r

FilesIdle == UNCHANGED fileVars

CompileProtos_callerConfig ==
  /\ pc = "compile"
  /\ UNCHANGED <<pool, msg_i, packages, cel>>
  /\ FilesIdle
  /\ config' = Append(config, compile_well_known_types)
  /\ \/ /\ fileExists' = TRUE
        /\ events' = Append(events, "write")
        /\ pc' = "open"
        /\ UNCHANGED result
     \/ /\ fileExists' \in {fileExists, TRUE}
        /\ UNCHANGED events
        /\ Return("err_compile")

\* temp_config.compile_protos(proto_files, proto_include_paths)? on a throwaway Config
CompileProtos ==
  /\ pc = "compile"
  /\ UNCHANGED <<pool, msg_i, config, packages, cel>>
  /\ FilesIdle
  /\ \/ /\ fileExists' = TRUE
        /\ events' = Append(events, "write")
        /\ pc' = "open"
        /\ UNCHANGED result
     \/ /\ fileExists' \in {fileExists, TRUE}
        /\ UNCHANGED events
        /\ Return("err_compile")

\* std::fs::File::open(&temp_descriptor_path)?
OpenFile ==
  /\ pc = "open"
  /\ UNCHANGED <<fileExists, pool, msg_i, config, packages, cel>>
  /\ FilesIdle
  /\ \/ /\ fileExists
        /\ events' = Append(events, "open")
        /\ pc' = "read"
        /\ UNCHANGED result
     \/ /\ UNCHANGED events
        /\ Return("err_open")

\* fds_file.read_to_end(&mut fds_bytes)?
ReadFile ==
  /\ pc = "read"
  /\ UNCHANGED <<fileExists, pool, msg_i, config, packages, cel>>
  /\ FilesIdle
  /\ \/ /\ events' = Append(events, "read")
        /\ pc' = "decode"
        /\ UNCHANGED result
     \/ /\ UNCHANGED events
        /\ Return("err_read")

\* DescriptorPool::decode(fds_bytes.as_slice())? and get_extension_by_name
Decode ==
  /\ pc = "decode"
  /\ UNCHANGED <<fileExists, config, packages, cel>>
  /\ FilesIdle
  /\ \/ /\ \E p \in Pools : pool' = p
        /\ msg_i' = 1
        /\ events' = Append(events, "decode")
        /\ pc' = "messages"
        /\ UNCHANGED result
     \/ /\ UNCHANGED <<pool, msg_i, events>>
        /\ Return("err_decode")

\* one iteration of `for message_desc in pool.all_messages()`
AnnotateMessage ==
  /\ pc = "messages"
  /\ msg_i <= Len(pool.messages)
  /\ LET message_desc == pool.messages[msg_i]
     IN config' = config \o IgnoreDirectives(pool, message_desc)
                         \o EntityDirectives(packages, cel, message_desc)
  /\ msg_i' = msg_i + 1
  /\ UNCHANGED <<pc, result, fileExists, events, pool, packages, cel>>
  /\ FilesIdle

\* config.extern_path(..); config.extern_path(..).compile_well_known_types()
RegisterExternPaths ==
  /\ pc = "messages"
  /\ msg_i > Len(pool.messages)
  /\ config' = config \o ExternPaths(pool)
  /\ pc' = "remove"
  /\ UNCHANGED <<result, fileExists, events, pool, msg_i, packages, cel>>
  /\ FilesIdle

RemoveFile_ignoreError ==
  /\ pc = "remove"
  /\ UNCHANGED <<pool, msg_i, config, packages, cel>>
  /\ FilesIdle
  /\ \/ /\ fileExists' = FALSE
        /\ events' = Append(events, "remove")
        /\ Return("Ok")
     \/ /\ UNCHANGED fileExists
        /\ events' = Append(events, "remove_failed")
        /\ Return("Ok")

\* std::fs::remove_file(&temp_descriptor_path)?; Ok(())
RemoveFile ==
  /\ pc = "remove"
  /\ UNCHANGED <<pool, msg_i, config, packages, cel>>
  /\ FilesIdle
  /\ \/ /\ fileExists' = FALSE
        /\ events' = Append(events, "remove")
        /\ Return("Ok")
     \/ /\ UNCHANGED fileExists
        /\ events' = Append(events, "remove_failed")
        /\ Return("err_remove")

----------------------------------------------------------------------------
(* get_proto_files_recursive *)

\* A file name is its dot-separated parts: "a.proto" is <<"a","proto">>,
\* the hidden file ".proto" is <<"","proto">>.
Root(isDir, readable, utf8) == [isDir |-> isDir, readable |-> readable, utf8 |-> utf8]
RootKinds == {Root(TRUE, TRUE, TRUE), Root(TRUE, TRUE, FALSE), Root(FALSE, TRUE, TRUE)}

Entry(kind, name, readable, utf8) ==
  [kind |-> kind, file_name |-> name, readable |-> readable, utf8 |-> utf8]
EntryKinds ==
  { Entry("file", <<"a", "proto">>, TRUE, TRUE),
    Entry("file", <<"b", "proto">>, TRUE, FALSE),
    Entry("file", <<"c", "txt">>, TRUE, TRUE),
    Entry("file", <<"", "proto">>, TRUE, TRUE),
    Entry("dir", <<"d">>, TRUE, TRUE),
    Entry("dir", <<"f">>, TRUE, FALSE),
    Entry("other", <<"s", "proto">>, TRUE, TRUE) }

\* nodes[i] = [parent, entry]: entry i lies in directory parent (0 is the root)
NoTree == [root |-> Root(FALSE, TRUE, TRUE), nodes |-> <<>>]

\* Path::is_dir, Path::is_file
is_dir(t, i) == IF i = 0 THEN t.root.isDir ELSE t.nodes[i].entry.kind = "dir"
is_file(t, i) == i # 0 /\ t.nodes[i].entry.kind = "file"

\* Path::extension: the part after the last dot of the file name; none when the
\* name has no dot or only a leading one
extension(name) ==
  IF Len(name) < 2 \/ (Len(name) = 2 /\ name[1] = "") THEN <<>> ELSE <<name[Len(name)]>>

IsProto_anyExt(name) == extension(name) # <<>>

\* path.extension().is_some_and(|ext| ext == "proto")
IsProto(name) == extension(name) = <<"proto">>

\* the path of entry i: the entries from the root down to it
RECURSIVE PathOf(_, _)
PathOf(t, i) == IF i = 0 THEN <<>> ELSE Append(PathOf(t, t.nodes[i].parent), i)

\* path.to_str(): Some exactly when every component is valid Unicode
to_str_ok(t, i) ==
  t.root.utf8 /\ \A k \in DOMAIN PathOf(t, i) : t.nodes[PathOf(t, i)[k]].entry.utf8

\* fs::read_dir(current_dir): fails on an unreadable directory
Readable(t, d) == IF d = 0 THEN t.root.readable ELSE t.nodes[d].entry.readable
read_dir(t, d) == SelectSeq([i \in DOMAIN t.nodes |-> i], LAMBDA i : t.nodes[i].parent = d)

HelperOk(files) == [error |-> "none", files |-> files]
HelperErr(kind) == [error |-> kind, files |-> <<>>]

RECURSIVE collect_proto_files_recursive_helper(_, _, _)
RECURSIVE ForEntries(_, _, _)
\* the `for entry in fs::read_dir(current_dir)?` loop over the entries es
ForEntries(t, es, proto_files) ==
  IF es = <<>> THEN HelperOk(proto_files)
  ELSE LET path == Head(es)
       IN IF is_file(t, path) THEN
            IF IsProto(t.nodes[path].entry.file_name) THEN
              IF to_str_ok(t, path)
              THEN ForEntries(t, Tail(es), Append(proto_files, PathOf(t, path)))
              ELSE HelperErr("InvalidData")
            ELSE ForEntries(t, Tail(es), proto_files)
          ELSE IF is_dir(t, path) THEN
            LET r == collect_proto_files_recursive_helper(t, path, proto_files)
            IN IF r.error # "none" THEN r ELSE ForEntries(t, Tail(es), r.files)
          ELSE ForEntries(t, Tail(es), proto_files)

collect_proto_files_recursive_helper(t, current_dir, proto_files) ==
  IF ~Readable(t, current_dir) THEN HelperErr("Io")
  ELSE ForEntries(t, read_dir(t, current_dir), proto_files)

get_proto_files_recursive(t) ==
  IF ~is_dir(t, 0) THEN [ok |-> FALSE, error |-> "InvalidInput", files |-> <<>>]
  ELSE LET r == collect_proto_files_recursive_helper(t, 0, <<>>)
       IN IF r.error # "none" THEN [ok |-> FALSE, error |-> r.error, files |-> <<>>]
          ELSE [ok |-> TRUE, error |-> "none", files |-> r.files]

NoResult == [ok |-> FALSE, error |-> "none", files |-> <<>>]

\* the file system before the call: one more entry in a directory of the tree
CreateEntry ==
  /\ fpc = "call"
  /\ base_dir.root.isDir
  /\ Len(base_dir.nodes) < MaxNodes
  /\ \E p \in {0} \cup {j \in DOMAIN base_dir.nodes : base_dir.nodes[j].entry.kind = "dir"},
        e \in EntryKinds :
       /\ \A j \in DOMAIN base_dir.nodes :
            base_dir.nodes[j].parent = p => base_dir.nodes[j].entry.file_name # e.file_name
       /\ base_dir' = [base_dir EXCEPT !.nodes = Append(@, [parent |-> p, entry |-> e])]
  /\ UNCHANGED <<fpc, fresult>>
  /\ UNCHANGED compileVars

\* the file system before the call: a subdirectory loses its read permission
RevokeRead ==
  /\ fpc = "call"
  /\ \E d \in DOMAIN base_dir.nodes :
       /\ base_dir.nodes[d].entry.kind = "dir"
       /\ base_dir.nodes[d].entry.readable
       /\ base_dir' = [base_dir EXCEPT !.nodes[d].entry.readable = FALSE]
  /\ UNCHANGED <<fpc, fresult>>
  /\ UNCHANGED compileVars

GetProtoFiles ==
  /\ fpc = "call"
  /\ fresult' = get_proto_files_recursive(base_dir)
  /\ fpc' = "returned"
  /\ UNCHANGED base_dir
  /\ UNCHANGED compileVars

----------------------------------------------------------------------------
(* Specifications *)

FilesInitIdle ==
  /\ base_dir = NoTree
  /\ fpc = "idle"
  /\ fresult = NoResult

Init ==
  /\ pc = "compile"
  /\ result = "none"
  /\ fileExists \in BOOLEAN
  /\ events = <<>>
  /\ pool = NoPool
  /\ msg_i = 1
  /\ config = <<>>
  /\ packages \in (SUBSET PackageNames) \ {{}}
  /\ cel \in BOOLEAN
  /\ FilesInitIdle

Next ==
  \/ CompileProtos
  \/ OpenFile
  \/ ReadFile
  \/ Decode
  \/ AnnotateMessage
  \/ RegisterExternPaths
  \/ RemoveFile

Spec == Init /\ [][Next]_vars

InitFiles ==
  /\ pc = "idle"
  /\ result = "none"
  /\ fileExists = FALSE
  /\ events = <<>>
  /\ pool = NoPool
  /\ msg_i = 1
  /\ config = <<>>
  /\ packages = {}
  /\ cel = FALSE
  /\ base_dir \in {[root |-> r, nodes |-> <<>>] : r \in RootKinds}
  /\ fpc = "call"
  /\ fresult = NoResult

NextFiles ==
  \/ CreateEntry
  \/ RevokeRead
  \/ GetProtoFiles

SpecFiles == InitFiles /\ [][NextFiles]_vars

----------------------------------------------------------------------------
(* Vocabulary of the properties, stated on the pool and the config log *)

AttributeFns == {"message_attribute", "type_attribute", "field_attribute"}

\* the message loop is over: pool decoded and every message visited
AfterLoop == pc = "remove" \/ (pc = "returned" /\ result \in {"Ok", "err_remove"})

Messages == {pool.messages[i] : i \in DOMAIN pool.messages}
FieldsOf(m) == {m.fields[j] : j \in DOMAIN m.fields}
MemberFieldsOf(m) == {f \in FieldsOf(m) : f.oneof # 0}
OneofNamesOf(m) == {OneofNames[f.oneof] : f \in MemberFieldsOf(m)}

MessageFqns == {m.package \o <<m.name>> : m \in Messages}
OneofFqns == UNION {{m.package \o <<m.name, o>> : o \in OneofNamesOf(m)} : m \in Messages}
FieldFqns == UNION {{m.package \o <<m.name, f.name>> : f \in FieldsOf(m)} : m \in Messages}
OneofScopedKeys ==
  UNION {{m.package \o <<m.name, OneofNames[f.oneof], f.name>> : f \in MemberFieldsOf(m)} :
         m \in Messages}

IsPrefix(a, b) == Len(a) <= Len(b) /\ SubSeq(b, 1, Len(a)) = a

Where(P(_)) == {i \in DOMAIN config : P(config[i])}
Num(P(_)) == Cardinality(Where(P))

\* the field's extension payload has an ignore member of ordinal 3
HasIgnoreOrdinal3(f) ==
  \E k \in DOMAIN f.rules.members :
    /\ f.rules.members[k].full_name = "buf.validate.FieldRules.ignore"
    /\ f.rules.members[k].isEnum
    /\ f.rules.members[k].number = 3

IsIgnoreDirective(d) == d.fn = "field_attribute" /\ d.attribute = IgnoreAttr
IsFieldNameDirective(d) ==
  d.fn = "field_attribute" /\ d.attribute.text = "#[protocheck(proto_name = {})]"

\* the message-level, oneof-level and field-name directives under message m
EntityDirectivesOf(m) ==
  Where(LAMBDA d : /\ d.fn \in AttributeFns
                   /\ ~IsIgnoreDirective(d)
                   /\ IsPrefix(m.package \o <<m.name>>, d.path))

Targeted(m) == \E t \in packages : t = m.package

----------------------------------------------------------------------------
(* Claims *)

\* C1: after the message loop, a field whose buf.validate.field payload has an
\* ignore member of ordinal 3 has exactly one ignore directive keyed by its
\* fully-qualified name, in or out of the target packages; any other field
\* (extension absent, ignore member absent, ordinal 0, 1 or 2) has none, and no
\* ignore directive is keyed by anything else.
C1_IgnoreDirectivePerField ==
  AfterLoop =>
    /\ \A m \in Messages : \A f \in FieldsOf(m) :
         Num(LAMBDA d : IsIgnoreDirective(d) /\ d.path = m.package \o <<m.name, f.name>>)
           = IF HasIgnoreOrdinal3(f) THEN 1 ELSE 0
    /\ \A i \in DOMAIN config :
         IsIgnoreDirective(config[i]) =>
           \E m \in Messages : \E f \in FieldsOf(m) :
             config[i].path = m.package \o <<m.name, f.name>> /\ HasIgnoreOrdinal3(f)

C1_Witness ==
  /\ AfterLoop
  /\ \E m \in Messages : \E f \in FieldsOf(m) :
       /\ ~Targeted(m)
       /\ HasIgnoreOrdinal3(f)
       /\ Num(LAMBDA d : IsIgnoreDirective(d) /\ d.path = m.package \o <<m.name, f.name>>) = 1
  /\ \E m \in Messages : \E f \in FieldsOf(m) : f.rules = Ign(2)

\* C2: after the message loop, a message of a target package with M oneofs and
\* F oneof member fields has exactly 1 + c + M*(2 + c) + F entity directives
\* (c = 1 with the cel feature, else 0): 1 message validation, c message
\* conversion, M oneof validation, M oneof derive, M*c oneof conversion and F
\* field-name directives.
C2_EntityDirectiveCount ==
  AfterLoop =>
    \A m \in Messages :
      Targeted(m) =>
        LET c == IF cel THEN 1 ELSE 0
            M == Cardinality(OneofNamesOf(m))
            F == Cardinality(MemberFieldsOf(m))
            mine == EntityDirectivesOf(m)
            n(P(_)) == Cardinality({i \in mine : P(config[i])})
        IN /\ Cardinality(mine) = 1 + c + M * (2 + c) + F
           /\ n(LAMBDA d : d.fn = "message_attribute" /\ d.attribute = ValidateAttr(d.path)) = 1
           /\ n(LAMBDA d : d.fn = "message_attribute" /\ d.attribute = CelAttr) = c
           /\ n(LAMBDA d : d.fn = "type_attribute" /\ d.attribute = ValidateOneofAttr(d.path)) = M
           /\ n(LAMBDA d : d.fn = "type_attribute" /\ d.attribute = OneofAttr) = M
           /\ n(LAMBDA d : d.fn = "type_attribute" /\ d.attribute = OneofCelAttr) = M * c
           /\ n(IsFieldNameDirective) = F

C2_Witness ==
  /\ AfterLoop
  /\ ~cel
  /\ \E m \in Messages :
       /\ Targeted(m)
       /\ Cardinality(OneofNamesOf(m)) = 2
       /\ Cardinality(MemberFieldsOf(m)) = 2
       /\ Cardinality(EntityDirectivesOf(m)) = 7

\* C3: a message whose package is not exactly one of the target packages (also
\* when a target is a proper prefix of its package) never has a message-level,
\* oneof-level or field-name directive, whatever ignore directives its fields got.
C3_NoDirectivesOutsideTargets ==
  \A m \in Messages : ~Targeted(m) => EntityDirectivesOf(m) = {}

C3_Witness ==
  /\ AfterLoop
  /\ packages = {<<"p">>}
  /\ \E m \in Messages :
       /\ m.package = <<"p", "sub">>
       /\ \E f \in MemberFieldsOf(m) :
            /\ HasIgnoreOrdinal3(f)
            /\ Num(LAMBDA d : IsIgnoreDirective(d) /\ d.path = m.package \o <<m.name, f.name>>) = 1
  /\ \E m \in Messages : Targeted(m) /\ EntityDirectivesOf(m) # {}

IsRemap(d, ns) == d.fn = "extern_path" /\ d.path = ns

\* C4: once the pool is decoded, the remappings of .buf.validate and of
\* .google.protobuf are registered exactly once each by the end of the
\* invocation, none is registered while messages remain to be visited, and each
\* follows every per-message directive, for any number of messages.
C4_RemapsOnceAfterMessages ==
  /\ AfterLoop =>
       /\ Num(LAMBDA d : IsRemap(d, <<"buf", "validate">>)) = 1
       /\ Num(LAMBDA d : IsRemap(d, <<"google", "protobuf">>)) = 1
       /\ Num(LAMBDA d : d.fn = "extern_path") = 2
  /\ pc = "messages" => Num(LAMBDA d : d.fn = "extern_path") = 0
  /\ \A i, j \in DOMAIN config :
       config[i].fn = "extern_path" /\ config[j].fn \in AttributeFns => j < i

C4_Witness ==
  /\ pc = "returned" /\ result = "Ok"
  /\ Len(pool.messages) = 2
  /\ Num(LAMBDA d : d.fn \in AttributeFns) >= 3
  /\ Num(LAMBDA d : d.fn = "extern_path") = 2

\* C5: on success the staging file does not exist, the file was not opened or
\* read after the pool was decoded, and a failed removal is returned as an error.
C5_StagingFileGoneOnSuccess ==
  /\ result = "Ok" => ~fileExists /\ events[Len(events)] = "remove"
  /\ \A i, j \in DOMAIN events :
       events[i] = "decode" /\ i < j => events[j] \notin {"open", "read", "write"}
  /\ (\E i \in DOMAIN events : events[i] = "remove_failed") => result = "err_remove"

C5_Witness ==
  /\ pc = "returned" /\ result = "Ok" /\ ~fileExists
  /\ \E i \in DOMAIN events : events[i] = "decode"

\* C6: after an invocation that failed at the decode step, the staging file is
\* absent from the staging directory.
C6_FileAbsentAfterDecodeFailure ==
  (pc = "returned" /\ result = "err_decode") => ~fileExists

\* C7 as stated: every attribute directive is keyed by the fully-qualified name
\* of a message, oneof or field of the pool.
C7_KeysAreEntityNames ==
  \A i \in DOMAIN config :
    config[i].fn \in AttributeFns =>
      config[i].path \in MessageFqns \cup OneofFqns \cup FieldFqns

\* C7 amended: message directives are keyed by a message's fully-qualified
\* name, oneof directives by a oneof's, ignore directives by a field's, and
\* field-name directives by the fully-qualified name of a oneof of the pool
\* followed by the declared name of one of its member fields.
C7_KeysNameEntitiesOrOneofMembers ==
  \A i \in DOMAIN config :
    LET d == config[i]
    IN /\ d.fn = "message_attribute" => d.path \in MessageFqns
       /\ d.fn = "type_attribute" => d.path \in OneofFqns
       /\ IsIgnoreDirective(d) => d.path \in FieldFqns
       /\ d.fn = "field_attribute" /\ ~IsIgnoreDirective(d) => d.path \in OneofScopedKeys

C7_Witness ==
  /\ AfterLoop
  /\ Num(IsIgnoreDirective) >= 1
  /\ Num(IsFieldNameDirective) >= 1
  /\ Num(LAMBDA d : d.fn = "message_attribute") >= 1
  /\ Num(LAMBDA d : d.fn = "type_attribute") >= 1

\* C8: after the message loop, every member field of every oneof of a target
\* message has exactly one field-name directive keyed by the oneof's
\* fully-qualified name, a dot and the field's declared name, carrying the
\* declared name; no field-name directive is keyed by a field's fully-qualified name.
C8_FieldNameDirectiveKeys ==
  /\ AfterLoop =>
       \A m \in Messages : Targeted(m) =>
         \A f \in MemberFieldsOf(m) :
           LET key == m.package \o <<m.name, OneofNames[f.oneof], f.name>>
           IN /\ Num(LAMBDA d : IsFieldNameDirective(d) /\ d.path = key) = 1
              /\ Num(LAMBDA d : d = field_attribute(key, ProtoNameAttr(f.name))) = 1
  /\ \A i \in DOMAIN config : IsFieldNameDirective(config[i]) => config[i].path \notin FieldFqns

C8_Witness ==
  /\ AfterLoop
  /\ \E m \in Messages :
       /\ Targeted(m)
       /\ \E f, g \in MemberFieldsOf(m) :
            /\ f # g /\ f.oneof = g.oneof
            /\ Num(LAMBDA d : d = field_attribute(m.package \o <<m.name, OneofNames[f.oneof], f.name>>,
                                                  ProtoNameAttr(f.name))) = 1
            /\ Num(LAMBDA d : d = field_attribute(m.package \o <<m.name, OneofNames[g.oneof], g.name>>,
                                                  ProtoNameAttr(g.name))) = 1

\* the regular files of the tree whose name ends in ".proto" after a non-empty stem
ProtoFiles(t) ==
  {i \in DOMAIN t.nodes :
     /\ t.nodes[i].entry.kind = "file"
     /\ Len(t.nodes[i].entry.file_name) >= 2
     /\ t.nodes[i].entry.file_name[Len(t.nodes[i].entry.file_name)] = "proto"
     /\ t.nodes[i].entry.file_name[1] # ""}
Dirs(t) == {0} \cup {i \in DOMAIN t.nodes : t.nodes[i].entry.kind = "dir"}
AllReadable(t) == \A d \in Dirs(t) : IF d = 0 THEN t.root.readable ELSE t.nodes[d].entry.readable
RECURSIVE Utf8Path(_, _)
Utf8Path(t, i) ==
  IF i = 0 THEN t.root.utf8 ELSE t.nodes[i].entry.utf8 /\ Utf8Path(t, t.nodes[i].parent)
AllProtoPathsUtf8(t) == \A i \in ProtoFiles(t) : Utf8Path(t, i)
ReturnedPaths == {fresult.files[k] : k \in DOMAIN fresult.files}
ExactlyTheProtoFiles(t) ==
  /\ fresult.ok
  /\ Len(fresult.files) = Cardinality(ProtoFiles(t))
  /\ Cardinality(ReturnedPaths) = Cardinality(ProtoFiles(t))
  /\ \A i \in ProtoFiles(t) : \E k \in DOMAIN fresult.files : fresult.files[k][Len(fresult.files[k])] = i
InvalidInput == ~fresult.ok /\ fresult.error = "InvalidInput" /\ fresult.files = <<>>

C10_ConfigUntouchedOnEarlyFailure ==
  (pc \in {"compile", "open", "read", "decode"}
     \/ result \in {"err_compile", "err_open", "err_read", "err_decode"})
  => config = <<>>

C10_Witness ==
  /\ pc = "returned"
  /\ result = "err_decode"
  /\ config = <<>>
  /\ Len(events) = 3

====
